---- MODULE Spec2Model ----
(***************************************************************************)
(* Model of the Physics RAG service (physics_rag_weaviate/app).            *)
(*                                                                         *)
(* State: the Weaviate collection, the service's _initialized flag, the    *)
(* source text file, and the outcome of the last HTTP request (the service *)
(* method's return value, the HTTP status and body, and the log of the     *)
(* provider calls the request made).                                       *)
(*                                                                         *)
(* The service methods are `async def`, but every provider call in them    *)
(* (genai.embed_content, collection.query.*, model.generate_content) is a  *)
(* plain synchronous call and the only awaits are on the service's own     *)
(* coroutines, so a handler runs to completion without yielding to the     *)
(* event loop: one action per endpoint handler.                            *)
(*                                                                         *)
(* Scores and confidences are fixed-point numbers in tenths (Scale = 1.0). *)
(* Texts are sequences of one-character strings.  The outcome of every     *)
(* provider call (success or failure, and what the index answers) is an    *)
(* input chosen by the environment.                                        *)
(***************************************************************************)
EXTENDS Integers, Sequences, FiniteSets, TLC

VARIABLES collection, initialized, physics_text, request, retrieval, result, status,
          body, calls, lazy_runs, tasks, running

vars == <<collection, initialized, physics_text, request, retrieval, result, status,
          body, calls, lazy_runs, tasks, running>>

(* ------------------------------ bounds --------------------------------- *)

\* largest number of requests in flight on one process
MaxTasks == 2

\* largest top_k a request asks for
MaxTopK == 2

\* largest number of objects the collection holds
MaxDocs == 2

\* largest number of lazily triggered initialize_collection() calls followed
MaxLazyRuns == 2

\* largest number of results handed to the generation gateway
MaxResults == 4

(* -------------------------- program constants -------------------------- *)

\* the literal 1.0, in tenths
Scale == 10

DEFAULT_TOP_K == 5

EXPLAIN_TOP_K == 3

\* the preview length of a source
PreviewLen == 200

\* search_results[:3]
MaxSources == 3

HTTP_200_OK == 200

HTTP_500_INTERNAL_SERVER_ERROR == 500

HTTP_503_SERVICE_UNAVAILABLE == 503

None == "None"

\* a request whose top_k is null (Optional[int])
NoTopK == 0

WEAVIATE_COLLECTION == "PhysicsChunk"

\* content.split('*****')
Delimiter == <<"*", "*", "*", "*", "*">>

\* the fixed texts of the service, by role
NoInfoText == "no relevant information found"

ApologyText == "sorry, could not generate an answer, please try again"

SimpleFailedText == "could not generate an answer"

MultiContextFailedText == "could not generate an answer from multiple contexts"

NoContextText == "no context found"

\* response.text of a successful generate_content call
GeneratedText == "generated"

\* a value of time.time() - start_time
Elapsed == "elapsed"

(* ------------------------------ inputs --------------------------------- *)

\* raw scores the index reports for the top result: below -1.0, in (-1.0, 0),
\* 0, in (0, 1.0), 1.0 and above 1.0
RawScores == {-15, -5, 0, 5, 10, 15}

\* raw scores the index reports for the results after the first
TailScores == {-5, 15}

SearchTypes == {"hybrid", "vector", "keyword"}

Queries == {"q"}

TopKs == (1..MaxTopK) \cup {NoTopK}

NoFile == <<"no file">>

\* contents of the physics text file: one chunk; two chunks around a blank
\* segment; NoFile when the file is found on none of the searched paths
PhysicsFiles ==
    { <<"a">>,
      <<" ", "a", " ">> \o Delimiter \o <<" ">> \o Delimiter \o <<"b">>,
      NoFile }

(* --------------------------- text helpers ------------------------------ *)

Min(a, b) == IF a <= b THEN a ELSE b

Max(a, b) == IF a >= b THEN a ELSE b

Abs(a) == IF a < 0 THEN -a ELSE a

IsSpace(c) == c = " "

RECURSIVE LStrip(_)
LStrip(s) == IF s # <<>> /\ IsSpace(Head(s)) THEN LStrip(Tail(s)) ELSE s

RECURSIVE RStrip(_)
RStrip(s) ==
    IF s # <<>> /\ IsSpace(s[Len(s)]) THEN RStrip(SubSeq(s, 1, Len(s) - 1)) ELSE s

\* str.strip()
Strip(s) == RStrip(LStrip(s))

StartsWith(s, d) == Len(s) >= Len(d) /\ SubSeq(s, 1, Len(d)) = d

RECURSIVE SplitFrom(_, _, _)
SplitFrom(s, d, cur) ==
    IF s = <<>> THEN <<cur>>
    ELSE IF StartsWith(s, d)
         THEN <<cur>> \o SplitFrom(SubSeq(s, Len(d) + 1, Len(s)), d, <<>>)
         ELSE SplitFrom(Tail(s), d, Append(cur, Head(s)))

\* str.split(d)
Split(s, d) == SplitFrom(s, d, <<>>)

RECURSIVE StripAll(_)
StripAll(segs) ==
    IF segs = <<>> THEN <<>> ELSE <<Strip(Head(segs))>> \o StripAll(Tail(segs))

NonEmpty(t) == t # <<>>

\* chunks = [t.strip() for t in content.split('*****') if t.strip()]
Chunks(content) == SelectSeq(StripAll(Split(content, Delimiter)), NonEmpty)

(* ----------------------------- call log -------------------------------- *)

\* one provider call of a request: which call, and whether it succeeded
Call(name, ok) == [name |-> name, ok |-> ok]

Called(log, name) == \E i \in 1..Len(log) : log[i].name = name

Failed(log, name) == \E i \in 1..Len(log) : log[i].name = name /\ ~log[i].ok

\* a provider call with the contexts it was given
CallWith(name, ok, contexts) == [name |-> name, ok |-> ok, contexts |-> contexts]

(* ----------------------- WeaviateSearchService ------------------------- *)

\* the objects insert_documents adds to the batch: properties text and doc_id
BatchObjects(documents) ==
    [i \in 1..Len(documents) |-> [text |-> documents[i], doc_id |-> i - 1]]

ResetOutcomes == {"ok", "failed before delete", "failed after delete"}

\* the collection after reset_collection; its boolean result is dropped by
\* the caller
reset_collection(coll, outcome) ==
    IF outcome = "failed before delete" THEN coll ELSE <<>>

get_collection_stats(coll, ok) ==
    IF ok
    THEN [total_documents |-> Len(coll), collection_name |-> WEAVIATE_COLLECTION,
          weaviate_url |-> "url", use_local |-> FALSE]
    ELSE [total_documents |-> 0, collection_name |-> WEAVIATE_COLLECTION,
          error |-> "stats failed"]

\* what the environment decides during one initialize_collection call: the
\* outcome of the reset, of the document count, of the batch embedding and
\* of the batch insert, and how many objects a failed insert had stored
InitEnvs ==
    [reset : ResetOutcomes, stats_ok : BOOLEAN, embed_ok : BOOLEAN,
     insert_ok : {TRUE}, inserted : {0}]
    \cup
    [reset : ResetOutcomes, stats_ok : BOOLEAN, embed_ok : BOOLEAN,
     insert_ok : {FALSE}, inserted : 0..2]

\* the collection after insert_documents(documents, embeddings): every object
\* on success, the objects already sent when the batch raises
insert_documents(coll, documents, env) ==
    IF env.insert_ok
    THEN coll \o BatchObjects(documents)
    ELSE coll \o SubSeq(BatchObjects(documents), 1, Min(env.inserted, Len(documents)))

(* ------------------------- WeaviateRAGService -------------------------- *)

\* initialize_collection(force_reset): the collection and flag it leaves, its
\* return value and the provider calls it made
initialize_collection(coll, init, text, force_reset, env) ==
    LET c1    == IF force_reset THEN reset_collection(coll, env.reset) ELSE coll
        stat  == <<Call("stats", env.stats_ok)>>
        pre   == IF force_reset
                 THEN <<Call("reset", env.reset = "ok")>> \o stat ELSE stat
        stats == get_collection_stats(c1, env.stats_ok)
    IN  IF stats.total_documents > 0 /\ ~force_reset
        THEN [collection |-> c1, initialized |-> TRUE, raised |-> FALSE, ret |-> TRUE,
              calls |-> pre]
        ELSE IF text = NoFile
        THEN [collection |-> c1, initialized |-> init, raised |-> FALSE, ret |-> FALSE,
              calls |-> pre \o <<Call("read", FALSE)>>]
        ELSE IF ~env.embed_ok
        THEN [collection |-> c1, initialized |-> init, raised |-> FALSE, ret |-> FALSE,
              calls |-> pre \o <<Call("read", TRUE), Call("embed_batch", FALSE)>>]
        ELSE IF env.insert_ok
        THEN [collection |-> insert_documents(c1, Chunks(text), env),
              initialized |-> TRUE, raised |-> FALSE, ret |-> TRUE,
              calls |-> pre \o <<Call("read", TRUE), Call("embed_batch", TRUE),
                                 Call("insert", TRUE)>>]
        ELSE [collection |-> insert_documents(c1, Chunks(text), env),
              initialized |-> init, raised |-> FALSE, ret |-> FALSE,
              calls |-> pre \o <<Call("read", TRUE), Call("embed_batch", TRUE),
                                 Call("insert", FALSE)>>]

\* ensure_initialized that sets the flag whatever the ingestion returned
ensure_initialized_flagged(coll, init, text, env) ==
    IF ~init
    THEN [initialize_collection(coll, init, text, FALSE, env) EXCEPT !.initialized = TRUE]
    ELSE [collection |-> coll, initialized |-> init, raised |-> FALSE, ret |-> TRUE,
          calls |-> <<>>]

\* ensure_initialized that runs the ingestion without looking at the flag
ensure_initialized_always(coll, init, text, env) ==
    initialize_collection(coll, init, text, FALSE, env)

\* the state search() works on after its lazy initialization (lines 128-129)
ensure_initialized(coll, init, text, env) ==
    IF ~init
    THEN initialize_collection(coll, init, text, FALSE, env)
    ELSE [collection |-> coll, initialized |-> init, raised |-> FALSE, ret |-> TRUE,
          calls |-> <<>>]

(* --------------------------- index queries ----------------------------- *)

Injective(f) == \A i, j \in DOMAIN f : f[i] = f[j] => i = j

\* the rankings an index query with this limit can answer: at most limit
\* distinct objects of the collection, in any order
Rankings(coll, limit) ==
    UNION { { f \in [1..n -> 1..Len(coll)] : Injective(f) }
            : n \in 0..Min(limit, Len(coll)) }

\* the scores reported with a ranking of n objects
ScoreLists(n) ==
    { sc \in [1..n -> RawScores] : \A i \in 2..n : sc[i] \in TailScores }

\* results.objects of one query: the object's properties and metadata score
\* (metadata distance in a near_vector query)
Objects(coll, ranking, scores) ==
    [i \in 1..Len(ranking) |->
        [properties |-> coll[ranking[i]], score |-> scores[i]]]

IndexAnswers(coll, limit) ==
    UNION { { Objects(coll, r, sc) : sc \in ScoreLists(Len(r)) }
            : r \in Rankings(coll, limit) }

\* FormatResults with the rank taken from enumerate() as it is, 0-based
FormatResultsZeroBased(objects, tag) ==
    [i \in 1..Len(objects) |->
        [content     |-> objects[i].properties.text,
         doc_id      |-> objects[i].properties.doc_id,
         score       |-> objects[i].score,
         rank        |-> i - 1,
         search_type |-> tag]]

\* the formatting loop shared by hybrid_search, vector_search and
\* keyword_search: rank is the 1-based position
FormatResults(objects, tag) ==
    [i \in 1..Len(objects) |->
        [content     |-> objects[i].properties.text,
         doc_id      |-> objects[i].properties.doc_id,
         score       |-> objects[i].score,
         rank        |-> (i - 1) + 1,
         search_type |-> tag]]

hybrid_search(objects) == FormatResults(objects, "hybrid")

vector_search(objects) == FormatResults(objects, "vector")

keyword_search(objects) == FormatResults(objects, "keyword")

\* TagResults with the default search type in place of the requested one
TagResultsDefault(results, search_type) ==
    [i \in 1..Len(results) |->
        [content     |-> results[i].content,
         doc_id      |-> results[i].doc_id,
         score       |-> results[i].score,
         rank        |-> results[i].rank,
         search_type |-> "hybrid",
         search_time |-> Elapsed]]

\* search() lines 170-172: every result gets the timing and the requested type
TagResults(results, search_type) ==
    [i \in 1..Len(results) |->
        [content     |-> results[i].content,
         doc_id      |-> results[i].doc_id,
         score       |-> results[i].score,
         rank        |-> results[i].rank,
         search_type |-> search_type,
         search_time |-> Elapsed]]

\* what the environment decides during the query part of one search(): the
\* outcome of the query embedding and of the index query, and the objects
\* the index answers
QueryEnvs(coll, limit) ==
    [embed_ok : {FALSE}, query_ok : {FALSE}, objects : {<<>>}]
    \cup [embed_ok : {TRUE}, query_ok : {FALSE}, objects : {<<>>}]
    \cup [embed_ok : BOOLEAN, query_ok : {TRUE}, objects : IndexAnswers(coll, limit)]

Limit(top_k, default) == IF top_k = NoTopK THEN default ELSE top_k

\* run_query with an except clause that returns an empty list instead of
\* re-raising
run_query_swallow(search_type, qenv) ==
    IF search_type \in {"hybrid", "vector"} /\ ~qenv.embed_ok
    THEN [raised |-> FALSE, error |-> None, value |-> <<>>,
          calls |-> <<Call("embed", FALSE)>>]
    ELSE LET pre == IF search_type = "keyword" THEN <<>> ELSE <<Call("embed", TRUE)>>
         IN  IF ~qenv.query_ok
             THEN [raised |-> FALSE, error |-> None, value |-> <<>>,
                   calls |-> pre \o <<Call("query", FALSE)>>]
             ELSE [raised |-> FALSE, error |-> None,
                   value |-> TagResults(FormatResults(qenv.objects, search_type),
                                        search_type),
                   calls |-> pre \o <<Call("query", TRUE)>>]

\* run_query that embeds the query in every mode, keyword included
run_query_embed_always(search_type, qenv) ==
    IF ~qenv.embed_ok
    THEN [raised |-> TRUE, error |-> "embedding failed", value |-> <<>>,
          calls |-> <<Call("embed", FALSE)>>]
    ELSE IF search_type \notin SearchTypes
    THEN [raised |-> TRUE, error |-> "Invalid search_type", value |-> <<>>,
          calls |-> <<>>]
    ELSE LET pre == <<Call("embed", TRUE)>>
         IN  IF ~qenv.query_ok
             THEN [raised |-> TRUE, error |-> "index query failed", value |-> <<>>,
                   calls |-> pre \o <<Call("query", FALSE)>>]
             ELSE [raised |-> FALSE, error |-> None,
                   value |-> TagResults(FormatResults(qenv.objects, search_type),
                                        search_type),
                   calls |-> pre \o <<Call("query", TRUE)>>]

\* search() lines 139-179, after the lazy initialization: raised with the
\* error, or the tagged results
run_query(search_type, qenv) ==
    IF search_type \in {"hybrid", "vector"} /\ ~qenv.embed_ok
    THEN [raised |-> TRUE, error |-> "embedding failed", value |-> <<>>,
          calls |-> <<Call("embed", FALSE)>>]
    ELSE IF search_type \notin SearchTypes
    THEN [raised |-> TRUE, error |-> "Invalid search_type", value |-> <<>>,
          calls |-> <<>>]
    ELSE LET pre == IF search_type = "keyword" THEN <<>> ELSE <<Call("embed", TRUE)>>
         IN  IF ~qenv.query_ok
             THEN [raised |-> TRUE, error |-> "index query failed", value |-> <<>>,
                   calls |-> pre \o <<Call("query", FALSE)>>]
             ELSE [raised |-> FALSE, error |-> None,
                   value |-> TagResults(
                       CASE search_type = "hybrid"  -> hybrid_search(qenv.objects)
                         [] search_type = "vector"  -> vector_search(qenv.objects)
                         [] search_type = "keyword" -> keyword_search(qenv.objects),
                       search_type),
                   calls |-> pre \o <<Call("query", TRUE)>>]

\* search() that raises when its lazy initialization returned False
search_reporting(st, search_type, limit, qenv) ==
    LET q == IF st.raised \/ ~st.ret
             THEN [raised |-> TRUE, error |-> "initialization failed",
                   value |-> <<>>, calls |-> <<>>]
             ELSE run_query(search_type, qenv)
    IN  [called |-> TRUE, search_type |-> search_type, limit |-> limit,
         raised |-> q.raised, error |-> q.error, value |-> q.value,
         calls |-> st.calls \o q.calls]

\* search(query, search_type, top_k): st is the state after the lazy
\* initialization, qenv the environment of the query
search(st, search_type, limit, qenv) ==
    LET q == IF st.raised
             THEN [raised |-> TRUE, error |-> "initialization failed",
                   value |-> <<>>, calls |-> <<>>]
             ELSE run_query(search_type, qenv)
    IN  [called |-> TRUE, search_type |-> search_type, limit |-> limit,
         raised |-> q.raised, error |-> q.error, value |-> q.value,
         calls |-> st.calls \o q.calls]

(* -------------------------- GenerationService -------------------------- *)

\* the text of the provider's exception
ProviderException == "provider error"

\* generate_response whose except clause hands back the error text
generate_response_error(gen_ok) == IF gen_ok THEN GeneratedText ELSE ProviderException

\* generate_response: the generated text, or the apology when the provider
\* call raises
generate_response(gen_ok) == IF gen_ok THEN GeneratedText ELSE ApologyText

\* generate_simple_response
generate_simple_response(gen_ok) == IF gen_ok THEN GeneratedText ELSE SimpleFailedText

\* generate_explanation
generate_explanation(concept, gen_ok) ==
    IF gen_ok THEN <<GeneratedText>> ELSE <<"could not explain", concept>>

\* generate_multi_context_response
generate_multi_context_response(contexts, gen_ok) ==
    IF contexts = <<>> THEN NoContextText
    ELSE IF gen_ok THEN GeneratedText ELSE MultiContextFailedText

Ellipsis == <<".", ".", ".">>

\* ContentPreview that truncates from 200 characters on
ContentPreviewFrom(content) ==
    IF Len(content) >= PreviewLen
    THEN SubSeq(content, 1, PreviewLen) \o Ellipsis
    ELSE content

\* result['content'][:200] + "..." if len(result['content']) > 200 else result['content']
ContentPreview(content) ==
    IF Len(content) > PreviewLen
    THEN SubSeq(content, 1, PreviewLen) \o Ellipsis
    ELSE content

\* the confidence estimate of generate_with_sources, lines 190-193
Confidence(score) ==
    LET confidence == Min(score, Scale)
    IN  IF confidence < 0 THEN Max(0, Scale - Abs(confidence)) ELSE confidence

SourceOf(r) ==
    [content_preview |-> ContentPreview(r.content),
     score           |-> r.score,
     doc_id          |-> r.doc_id,
     rank            |-> r.rank,
     search_type     |-> r.search_type]

\* generate_with_sources that lists every result as a source
generate_with_sources_all(search_results, gen_ok) ==
    IF search_results = <<>>
    THEN [response |-> NoInfoText, sources |-> <<>>, confidence |-> 0]
    ELSE [response      |-> generate_response(gen_ok),
          sources       |-> [i \in 1..Len(search_results) |->
                                SourceOf(search_results[i])],
          confidence    |-> Confidence(search_results[1].score),
          total_sources |-> Len(search_results)]

generate_with_sources(search_results, gen_ok) ==
    IF search_results = <<>>
    THEN [response |-> NoInfoText, sources |-> <<>>, confidence |-> 0]
    ELSE [response      |-> generate_response(gen_ok),
          sources       |-> [i \in 1..Min(MaxSources, Len(search_results)) |->
                                SourceOf(search_results[i])],
          confidence    |-> Confidence(search_results[1].score),
          total_sources |-> Len(search_results)]

(* ---------------------- chat and explain_concept ----------------------- *)

\* the result dict of chat() without sources, lines 221-228
ChatWithoutSources(search_results, gen_ok) ==
    [response   |-> generate_response(gen_ok),
     sources    |-> <<>>,
     confidence |-> search_results[1].score]

\* chat(message, include_sources, search_type, top_k) given the outcome s of
\* its search() call; chat() returns in every branch
chat(message, include_sources, search_type, s, gen_ok) ==
    IF s.raised
    THEN [response |-> ApologyText, sources |-> <<>>, confidence |-> 0,
          total_time |-> Elapsed, search_type |-> search_type, error |-> s.error]
    ELSE IF s.value = <<>>
    THEN [response |-> NoInfoText, sources |-> <<>>, confidence |-> 0,
          total_time |-> Elapsed, search_type |-> search_type]
    ELSE (IF include_sources
          THEN generate_with_sources(s.value, gen_ok)
          ELSE ChatWithoutSources(s.value, gen_ok))
         @@ [total_time |-> Elapsed, search_results_count |-> Len(s.value),
             search_type |-> search_type, message |-> message]

\* ExplainContexts that takes the contents of search_results[:3]
ExplainContextsThree(s) == [i \in 1..Min(3, Len(s.value)) |-> s.value[i].content]

\* the contexts explain_concept() generates from (line 277)
ExplainContexts(s) == [i \in 1..Min(2, Len(s.value)) |-> s.value[i].content]

\* explain_concept(concept, top_k) given the outcome s of its search() call
explain_concept(concept, s, gen_ok) ==
    IF s.raised
    THEN [explanation |-> <<"could not explain", concept>>, sources |-> <<>>,
          error |-> s.error]
    ELSE IF s.value = <<>>
    THEN [explanation |-> <<"no information about", concept>>, sources |-> <<>>]
    ELSE [explanation |-> <<generate_multi_context_response(ExplainContexts(s),
                                                             gen_ok)>>,
          sources     |-> SubSeq(s.value, 1, Min(2, Len(s.value))),
          concept     |-> concept]

\* ChatContexts that hands every result's content to the generation
ChatContextsAll(s) == [i \in 1..Len(s.value) |-> s.value[i].content]

\* the context chat() generates from: search_results[0]['content'], with and
\* without sources (generation_service.py line 176, rag_service.py line 222)
ChatContexts(s) == IF s.value = <<>> THEN <<>> ELSE <<s.value[1].content>>

\* GenCalls without the early returns: generation is called on every path
GenCallsAlways(s, gen_ok, contexts) == <<CallWith("generate", gen_ok, contexts)>>

\* did the generation provider get called by chat or explain_concept, and
\* with which contexts
GenCalls(s, gen_ok, contexts) ==
    IF ~s.raised /\ s.value # <<>>
    THEN <<CallWith("generate", gen_ok, contexts)>> ELSE <<>>

\* get_similar_content with the score normalised like a confidence
get_similar_content_normalised(s) ==
    IF s.raised THEN <<>>
    ELSE [i \in 1..Len(s.value) |->
            [content          |-> s.value[i].content,
             similarity_score |-> Confidence(s.value[i].score),
             doc_id           |-> s.value[i].doc_id]]

\* get_similar_content(text, top_k) given the outcome s of its vector
\* search() call: the empty list when that raised
get_similar_content(s) ==
    IF s.raised THEN <<>>
    ELSE [i \in 1..Len(s.value) |->
            [content          |-> s.value[i].content,
             similarity_score |-> s.value[i].score,
             doc_id           |-> s.value[i].doc_id]]

(* --------------------------- response models --------------------------- *)

SimilarContentRequired == {"content", "similarity_score", "doc_id"}

ServiceStatsRequired == {"service_status", "initialized"}

InitializeResponseRequired == {"success", "message", "collection_name"}

SearchResultRequired == {"content", "score", "rank", "doc_id", "search_type"}

SourceInfoRequired == {"content_preview", "score", "rank", "search_type"}

ChatResponseRequired ==
    {"response", "confidence", "total_time", "search_results_count",
     "search_type", "message"}

ChatResponseFields == ChatResponseRequired \cup {"sources"}

ConceptResponseRequired == {"explanation", "concept"}

ConceptResponseFields == ConceptResponseRequired \cup {"sources"}

AllHave(items, required) == \A i \in 1..Len(items) : required \subseteq DOMAIN items[i]

\* ChatResponse(**response) validates: the required fields are present and
\* confidence satisfies ge=0.0, le=1.0
ChatResponseValid(d) ==
    /\ ChatResponseRequired \subseteq DOMAIN d
    /\ d.confidence >= 0
    /\ d.confidence <= Scale
    /\ "sources" \in DOMAIN d => AllHave(d.sources, SourceInfoRequired)

\* ConceptResponse(**response) validates
ConceptResponseValid(d) ==
    /\ ConceptResponseRequired \subseteq DOMAIN d
    /\ "sources" \in DOMAIN d => AllHave(d.sources, SearchResultRequired)

\* the fields a response model keeps of the dict it is built from
ModelBody(d, fields) == [k \in fields \cap DOMAIN d |-> d[k]]

\* get_service_stats()
get_service_stats(coll, init, ok) ==
    LET weaviate_stats == get_collection_stats(coll, ok)
    IN  [service_status  |-> "healthy",
         initialized     |-> init,
         total_documents |-> weaviate_stats.total_documents,
         collection_name |-> weaviate_stats.collection_name]

\* what get_single_embedding("test") does in a health check: returns an
\* embedding, returns an empty one, or raises
EmbedOutcomes == {"ok", "empty", "failed"}

\* health_check(): the three probes in order; only a probe that raises
\* degrades the overall status
health_check(coll, embed, stats_ok, gen_ok) ==
    LET stats == get_collection_stats(coll, stats_ok)
        test_response == generate_simple_response(gen_ok)
    IN  [status   |-> IF embed = "failed" THEN "degraded" ELSE "healthy",
         services |->
            [embedding  |-> [status |-> IF embed = "ok" THEN "healthy" ELSE "unhealthy"],
             weaviate   |-> [status |-> "healthy",
                             document_count |-> stats.total_documents,
                             collection_name |-> stats.collection_name],
             generation |-> [status |-> IF test_response # ""
                                        THEN "healthy" ELSE "unhealthy"]]]

(* ------------------------------ requests ------------------------------- *)

\* the initialize endpoint whose HTTPException is not caught by the handler
initialize_endpoint_propagates(r, stats) ==
    IF ~r.raised /\ r.ret
    THEN [status |-> HTTP_200_OK,
          body   |-> [success |-> TRUE,
                      message |-> "Collection initialized successfully",
                      documents_count |-> stats.total_documents,
                      collection_name |-> stats.collection_name]]
    ELSE [status |-> HTTP_500_INTERNAL_SERVER_ERROR,
          body   |-> [detail |-> "Failed to initialize collection"]]

\* the body of the initialize endpoint, given the outcome r of
\* initialize_collection: the HTTPException raised for a False result is
\* caught by the handler's own except clause, which returns the failure body
initialize_endpoint(r, stats) ==
    IF ~r.raised /\ r.ret
    THEN [status |-> HTTP_200_OK,
          body   |-> [success |-> TRUE,
                      message |-> "Collection initialized successfully",
                      documents_count |-> stats.total_documents,
                      collection_name |-> stats.collection_name]]
    ELSE [status |-> HTTP_200_OK,
          body   |-> [success |-> FALSE,
                      message |-> "Initialization failed",
                      collection_name |-> WEAVIATE_COLLECTION]]

\* the environments of a lazy initialize_collection() call, which never resets
LazyEnvs == { e \in InitEnvs : e.reset = "ok" }

\* the states the lazy initialization of one search() call can leave, from
\* the current state (lines 128-129)
LazyStates ==
    { ensure_initialized(collection, initialized, physics_text, e) : e \in LazyEnvs }

\* one way a search(search_type, limit) call can go: the state st its lazy
\* initialization leaves and its outcome in the query environment qenv
SearchOutcome(st, search_type, limit, qenv) ==
    [st |-> st, s |-> search(st, search_type, limit, qenv)]

NoResult == [raised |-> FALSE, error |-> None, value |-> <<>>]

\* the request made no search() call
NoRetrieval ==
    [called |-> FALSE, search_type |-> None, limit |-> 0, raised |-> FALSE,
     error |-> None, value |-> <<>>]

\* the outcome of a search() call, without its call log
Retrieval(s) ==
    [called |-> s.called, search_type |-> s.search_type, limit |-> s.limit,
     raised |-> s.raised, error |-> s.error, value |-> s.value]

NoRequest == [op |-> "none"]

\* no handler coroutine is scheduled on the event loop
NoTasks == <<>>

NoBody == [detail |-> None]

\* no request is being served
Idle == request = NoRequest

Init ==
    /\ physics_text \in PhysicsFiles
    /\ collection \in {<<>>, BatchObjects(Chunks(<<"a">>))}
    /\ initialized = FALSE
    /\ request = NoRequest
    /\ retrieval = NoRetrieval
    /\ result = NoResult
    /\ status = 0
    /\ body = NoBody
    /\ calls = <<>>
    /\ lazy_runs = 0
    /\ tasks = NoTasks
    /\ running = 0

\* the lazily triggered initialize_collection() calls so far, counting the
\* one a search() call makes from the current state (lines 128-129)
LazyRuns == IF ~initialized THEN lazy_runs + 1 ELSE lazy_runs

\* POST /initialize
Initialize ==
    /\ Idle
    /\ \E force_reset \in BOOLEAN, env \in InitEnvs, stats_ok \in BOOLEAN :
        LET r == initialize_collection(collection, initialized, physics_text,
                                       force_reset, env)
            stats == get_service_stats(r.collection, r.initialized, stats_ok)
        IN  /\ Len(r.collection) <= MaxDocs
            /\ collection' = r.collection
            /\ initialized' = r.initialized
            /\ request' = [op |-> "initialize", force_reset |-> force_reset]
            /\ retrieval' = NoRetrieval
            /\ result' = [raised |-> r.raised, error |-> None, value |-> r.ret]
            /\ status' = initialize_endpoint(r, stats).status
            /\ body' = initialize_endpoint(r, stats).body
            /\ calls' = IF ~r.raised /\ r.ret
                        THEN r.calls \o <<Call("stats", stats_ok)>>
                        ELSE r.calls
            /\ UNCHANGED <<physics_text, lazy_runs, tasks, running>>

\* POST /search
Search ==
    /\ Idle
    /\ \E query \in Queries, search_type \in SearchTypes, top_k \in TopKs :
      \E st \in { l \in LazyStates : Len(l.collection) <= MaxDocs } :
      \E qenv \in QueryEnvs(st.collection, Limit(top_k, DEFAULT_TOP_K)) :
      LET o == SearchOutcome(st, search_type, Limit(top_k, DEFAULT_TOP_K), qenv) IN
        /\ LazyRuns <= MaxLazyRuns
        /\ lazy_runs' = LazyRuns
        /\ collection' = o.st.collection
        /\ initialized' = o.st.initialized
        /\ request' = [op |-> "search", query |-> query,
                       search_type |-> search_type, top_k |-> top_k]
        /\ retrieval' = Retrieval(o.s)
        /\ result' = [raised |-> o.s.raised, error |-> o.s.error, value |-> o.s.value]
        /\ status' = IF o.s.raised \/ ~AllHave(o.s.value, SearchResultRequired)
                     THEN HTTP_500_INTERNAL_SERVER_ERROR ELSE HTTP_200_OK
        /\ body' = IF o.s.raised \/ ~AllHave(o.s.value, SearchResultRequired)
                   THEN [detail |-> "Search failed"]
                   ELSE [results |-> o.s.value, query |-> query,
                         search_type |-> search_type,
                         total_results |-> Len(o.s.value),
                         search_time |-> IF o.s.value # <<>>
                                         THEN o.s.value[1].search_time ELSE None]
        /\ calls' = o.s.calls
        /\ UNCHANGED <<physics_text, tasks, running>>

\* POST /chat
Chat ==
    /\ Idle
    /\ \E search_type \in SearchTypes, top_k \in TopKs :
      \E st \in { l \in LazyStates : Len(l.collection) <= MaxDocs } :
      \E qenv \in QueryEnvs(st.collection, Limit(top_k, DEFAULT_TOP_K)) :
      LET o == SearchOutcome(st, search_type, Limit(top_k, DEFAULT_TOP_K), qenv) IN
      \E message \in Queries, include_sources \in BOOLEAN, gen_ok \in BOOLEAN :
        LET response == chat(message, include_sources, search_type, o.s, gen_ok)
        IN  /\ LazyRuns <= MaxLazyRuns
            /\ lazy_runs' = LazyRuns
            /\ collection' = o.st.collection
            /\ initialized' = o.st.initialized
            /\ request' = [op |-> "chat", message |-> message,
                           include_sources |-> include_sources,
                           search_type |-> search_type, top_k |-> top_k]
            /\ retrieval' = Retrieval(o.s)
            /\ result' = [raised |-> FALSE, error |-> None, value |-> response]
            /\ status' = IF ChatResponseValid(response)
                         THEN HTTP_200_OK ELSE HTTP_500_INTERNAL_SERVER_ERROR
            /\ body' = IF ChatResponseValid(response)
                       THEN ModelBody(response, ChatResponseFields)
                       ELSE [detail |-> "Chat failed"]
            /\ calls' = o.s.calls \o GenCalls(o.s, gen_ok, ChatContexts(o.s))
            /\ UNCHANGED <<physics_text, tasks, running>>

\* POST /explain
Explain ==
    /\ Idle
    /\ \E top_k \in TopKs :
      \E st \in { l \in LazyStates : Len(l.collection) <= MaxDocs } :
      \E qenv \in QueryEnvs(st.collection, Limit(top_k, EXPLAIN_TOP_K)) :
      LET o == SearchOutcome(st, "hybrid", Limit(top_k, EXPLAIN_TOP_K), qenv) IN
      \E concept \in Queries, gen_ok \in BOOLEAN :
        LET response == explain_concept(concept, o.s, gen_ok)
        IN  /\ LazyRuns <= MaxLazyRuns
            /\ lazy_runs' = LazyRuns
            /\ collection' = o.st.collection
            /\ initialized' = o.st.initialized
            /\ request' = [op |-> "explain", concept |-> concept, top_k |-> top_k]
            /\ retrieval' = Retrieval(o.s)
            /\ result' = [raised |-> FALSE, error |-> None, value |-> response]
            /\ status' = IF ConceptResponseValid(response)
                         THEN HTTP_200_OK ELSE HTTP_500_INTERNAL_SERVER_ERROR
            /\ body' = IF ConceptResponseValid(response)
                       THEN ModelBody(response, ConceptResponseFields)
                       ELSE [detail |-> "Concept explanation failed"]
            /\ calls' = o.s.calls \o GenCalls(o.s, gen_ok, ExplainContexts(o.s))
            /\ UNCHANGED <<physics_text, tasks, running>>

\* POST /similar
Similar ==
    /\ Idle
    /\ \E text \in Queries, top_k \in TopKs :
      \E st \in { l \in LazyStates : Len(l.collection) <= MaxDocs } :
      \E qenv \in QueryEnvs(st.collection, Limit(top_k, DEFAULT_TOP_K)) :
      LET o == SearchOutcome(st, "vector", Limit(top_k, DEFAULT_TOP_K), qenv) IN
        LET similar_content == get_similar_content(o.s)
        IN  /\ LazyRuns <= MaxLazyRuns
            /\ lazy_runs' = LazyRuns
            /\ collection' = o.st.collection
            /\ initialized' = o.st.initialized
            /\ request' = [op |-> "similar", text |-> text, top_k |-> top_k]
            /\ retrieval' = Retrieval(o.s)
            /\ result' = [raised |-> FALSE, error |-> None, value |-> similar_content]
            /\ status' = IF AllHave(similar_content, SimilarContentRequired)
                         THEN HTTP_200_OK ELSE HTTP_500_INTERNAL_SERVER_ERROR
            /\ body' = IF AllHave(similar_content, SimilarContentRequired)
                       THEN [similar_content |-> similar_content,
                             reference_text  |-> text,
                             total_results   |-> Len(similar_content)]
                       ELSE [detail |-> "Similarity search failed"]
            /\ calls' = o.s.calls
            /\ UNCHANGED <<physics_text, tasks, running>>

\* GET /stats
Stats ==
    /\ Idle
    /\ \E stats_ok \in BOOLEAN :
        LET stats == get_service_stats(collection, initialized, stats_ok)
        IN  /\ request' = [op |-> "stats"]
            /\ retrieval' = NoRetrieval
            /\ result' = [raised |-> FALSE, error |-> None, value |-> stats]
            /\ status' = IF ServiceStatsRequired \subseteq DOMAIN stats
                         THEN HTTP_200_OK ELSE HTTP_500_INTERNAL_SERVER_ERROR
            /\ body' = IF ServiceStatsRequired \subseteq DOMAIN stats
                       THEN stats ELSE [detail |-> "Failed to get stats"]
            /\ calls' = <<Call("stats", stats_ok)>>
            /\ UNCHANGED <<collection, initialized, physics_text, lazy_runs, tasks, running>>

\* GET /health
Health ==
    /\ Idle
    /\ \E embed \in EmbedOutcomes, stats_ok \in BOOLEAN, gen_ok \in BOOLEAN :
        LET health_result == health_check(collection, embed, stats_ok, gen_ok)
        IN  /\ request' = [op |-> "health"]
            /\ retrieval' = NoRetrieval
            /\ result' = [raised |-> FALSE, error |-> None, value |-> health_result]
            /\ status' = IF health_result.status = "healthy"
                         THEN HTTP_200_OK ELSE HTTP_503_SERVICE_UNAVAILABLE
            /\ body' = IF health_result.status = "healthy"
                       THEN health_result ELSE [detail |-> "Health check failed"]
            /\ calls' = <<Call("embed", embed # "failed"), Call("stats", stats_ok),
                          Call("generate", gen_ok)>>
            /\ UNCHANGED <<collection, initialized, physics_text, lazy_runs, tasks, running>>

\* the response of the served request is sent and the handler's frame is gone
Respond ==
    /\ ~Idle
    /\ request' = NoRequest
    /\ retrieval' = NoRetrieval
    /\ result' = NoResult
    /\ status' = 0
    /\ body' = NoBody
    /\ calls' = <<>>
    /\ UNCHANGED <<collection, initialized, physics_text, lazy_runs, tasks, running>>

Next == Initialize \/ Search \/ Chat \/ Explain \/ Similar \/ Stats \/ Health \/ Respond

Spec == Init /\ [][Next]_vars

TypeOK ==
    /\ initialized \in BOOLEAN
    /\ Len(collection) <= MaxDocs
    /\ status \in {0, HTTP_200_OK, HTTP_500_INTERNAL_SERVER_ERROR,
                    HTTP_503_SERVICE_UNAVAILABLE}
    /\ lazy_runs \in 0..MaxLazyRuns

(* ----------------- the generation gateway on its own ------------------- *)

\* a text of n characters
LongText(n) == [i \in 1..n |-> "x"]

\* a collection whose chunks are shorter than, as long as and longer than
\* the preview length
GatewayCollection ==
    << [text |-> LongText(150), doc_id |-> 0],
       [text |-> LongText(200), doc_id |-> 1],
       [text |-> LongText(201), doc_id |-> 2],
       [text |-> LongText(250), doc_id |-> 3] >>

\* the result sequences search() hands to the gateway
GatewayInputs ==
    { TagResults(FormatResults(objects, search_type), search_type)
      : objects \in IndexAnswers(GatewayCollection, MaxResults),
        search_type \in {"hybrid"} }

GatewayInit ==
    /\ physics_text = NoFile
    /\ collection = GatewayCollection
    /\ initialized = TRUE
    /\ request = NoRequest
    /\ retrieval \in { [called |-> TRUE, search_type |-> "hybrid",
                        limit |-> MaxResults, raised |-> FALSE, error |-> None,
                        value |-> v] : v \in GatewayInputs }
    /\ result = NoResult
    /\ status = 0
    /\ body = NoBody
    /\ calls = <<>>
    /\ lazy_runs = 0
    /\ tasks = NoTasks
    /\ running = 0

\* one gateway method is applied to the results: what it returns and whether
\* it called the provider
Applied(op, value, log) ==
    /\ request' = [op |-> op]
    /\ result' = [raised |-> FALSE, error |-> None, value |-> value]
    /\ calls' = log
    /\ UNCHANGED <<collection, initialized, physics_text, retrieval, status, body,
                   lazy_runs, tasks, running>>

Contents(results) == [i \in 1..Len(results) |-> results[i].content]

GenerateWithSources ==
    /\ Idle
    /\ \E gen_ok \in BOOLEAN :
         Applied("generate_with_sources",
                 generate_with_sources(retrieval.value, gen_ok),
                 IF retrieval.value # <<>> THEN <<Call("generate", gen_ok)>> ELSE <<>>)

GenerateResponse ==
    /\ Idle
    /\ retrieval.value # <<>>
    /\ \E gen_ok \in BOOLEAN :
         Applied("generate_response", generate_response(gen_ok),
                 <<Call("generate", gen_ok)>>)

GenerateSimpleResponse ==
    /\ Idle
    /\ retrieval.value # <<>>
    /\ \E gen_ok \in BOOLEAN :
         Applied("generate_simple_response", generate_simple_response(gen_ok),
                 <<Call("generate", gen_ok)>>)

GenerateExplanation ==
    /\ Idle
    /\ retrieval.value # <<>>
    /\ \E concept \in Queries, gen_ok \in BOOLEAN :
         Applied("generate_explanation", generate_explanation(concept, gen_ok),
                 <<Call("generate", gen_ok)>>)

GenerateMultiContext ==
    /\ Idle
    /\ \E gen_ok \in BOOLEAN :
         Applied("generate_multi_context_response",
                 generate_multi_context_response(Contents(retrieval.value), gen_ok),
                 IF retrieval.value # <<>> THEN <<Call("generate", gen_ok)>> ELSE <<>>)

\* explain_concept() from the point where its search() call has returned
\* these results
ExplainConcept ==
    /\ Idle
    /\ \E concept \in Queries, gen_ok \in BOOLEAN :
         Applied("explain_concept", explain_concept(concept, retrieval, gen_ok),
                 GenCalls(retrieval, gen_ok, ExplainContexts(retrieval)))

GatewayNext ==
    \/ GenerateWithSources
    \/ GenerateResponse
    \/ GenerateSimpleResponse
    \/ GenerateExplanation
    \/ GenerateMultiContext
    \/ ExplainConcept

GatewaySpec == GatewayInit /\ [][GatewayNext]_vars

(* ---------------------- construction of the service -------------------- *)

\* an environment variable that is not set
Unset == "<unset>"

\* os.getenv(name, default)
getenv(value, default) == IF value = Unset THEN default ELSE value

\* the process environments the service is started in
Environments ==
    [ GOOGLE_API_KEY     : {Unset, "", "GOOGLE_API", "google key"},
      WEAVIATE_URL       : {Unset, "", "https://cluster.weaviate.cloud", "not a url"},
      WEAVIATE_API_KEY   : {Unset, "", "weaviate key"},
      USE_LOCAL_WEAVIATE : {Unset, "true", "false"} ]

\* the class attributes of Settings, read from the environment at import
Settings(env) ==
    [ GOOGLE_API_KEY     |-> getenv(env.GOOGLE_API_KEY, "your_actual_google_api_key_here"),
      WEAVIATE_URL       |-> getenv(env.WEAVIATE_URL, "your_weaviate_cluster_url_here"),
      WEAVIATE_API_KEY   |-> getenv(env.WEAVIATE_API_KEY, "your_weaviate_api_key_here"),
      USE_LOCAL_WEAVIATE |-> getenv(env.USE_LOCAL_WEAVIATE, "false") = "true" ]

\* validate_api_key: TRUE when it returns, FALSE when it raises ValueError
validate_api_key(settings) ==
    ~(settings.GOOGLE_API_KEY = "" \/ settings.GOOGLE_API_KEY = "GOOGLE_API")

\* validate_weaviate_config: TRUE when it returns, FALSE when it raises
validate_weaviate_config(settings) ==
    /\ settings.WEAVIATE_URL # ""
    /\ ~(~settings.USE_LOCAL_WEAVIATE /\ settings.WEAVIATE_API_KEY = "")

\* whether the index accepts a connection with these settings: never with a
\* URL that names no cluster or, for the cloud, a key the cluster does not know
ConnectOutcomes(settings) ==
    IF /\ settings.WEAVIATE_URL = "https://cluster.weaviate.cloud"
       /\ (settings.USE_LOCAL_WEAVIATE \/ settings.WEAVIATE_API_KEY = "weaviate key")
    THEN BOOLEAN
    ELSE {FALSE}

\* WeaviateRAGService.__init__: the two validations, then the embedding
\* client, the index connection and the generation client
WeaviateRAGService(settings, connect_ok) ==
    IF ~validate_api_key(settings)
    THEN [raised |-> TRUE, error |-> "GOOGLE_API_KEY must be set", calls |-> <<>>]
    ELSE IF ~validate_weaviate_config(settings)
    THEN [raised |-> TRUE, error |-> "weaviate configuration", calls |-> <<>>]
    ELSE IF ~connect_ok
    THEN [raised |-> TRUE, error |-> "connection failed",
          calls |-> <<Call("configure_provider", TRUE), Call("connect_index", FALSE)>>]
    ELSE [raised |-> FALSE, error |-> None,
          calls |-> <<Call("configure_provider", TRUE), Call("connect_index", TRUE),
                      Call("configure_provider", TRUE)>>]

ConstructInit ==
    /\ physics_text = NoFile
    /\ collection = <<>>
    /\ initialized = FALSE
    /\ request \in { [op |-> "startup", env |-> env] : env \in Environments }
    /\ retrieval = NoRetrieval
    /\ result = NoResult
    /\ status = 0
    /\ body = NoBody
    /\ calls = <<>>
    /\ lazy_runs = 0
    /\ tasks = NoTasks
    /\ running = 0

\* lifespan(): the service is constructed once at startup
Construct ==
    /\ request.op = "startup"
    /\ \E connect_ok \in ConnectOutcomes(Settings(request.env)) :
         LET made == WeaviateRAGService(Settings(request.env), connect_ok)
         IN  /\ request' = [request EXCEPT !.op = "construct"]
             /\ result' = [raised |-> made.raised, error |-> made.error,
                           value |-> None]
             /\ calls' = made.calls
    /\ UNCHANGED <<collection, initialized, physics_text, retrieval, status, body,
                   lazy_runs, tasks, running>>

ConstructNext == Construct

ConstructSpec == ConstructInit /\ [][ConstructNext]_vars

(* -------------------- concurrent requests on one process --------------- *)
(* Every endpoint handler is a coroutine on the single event-loop thread.  *)
(* A coroutine gives the thread up only at an await that suspends.  The    *)
(* handlers await only the service's own coroutines, and the provider      *)
(* calls inside those (genai.embed_content, collection.query.*,            *)
(* collection.aggregate, model.generate_content) are plain blocking calls: *)
(* the thread stays inside the handler until it returns.                   *)

Tasks == 1..MaxTasks

\* the provider calls of search() in one mode, in order (lines 142-163)
QueryCalls(search_type) ==
    IF search_type = "keyword" THEN <<"query">> ELSE <<"embed", "query">>

\* the provider calls a handler makes on an initialized service, in order
ProviderCalls(op, search_type) ==
    CASE op = "search"  -> QueryCalls(search_type)
      [] op = "chat"    -> QueryCalls(search_type) \o <<"generate">>
      [] op = "explain" -> QueryCalls("hybrid") \o <<"generate">>
      [] op = "similar" -> QueryCalls("vector")
      [] op = "health"  -> <<"embed", "stats", "generate">>
      [] OTHER          -> <<>>

\* the requests a client sends
TaskRequests ==
    [op : {"search", "chat"}, search_type : SearchTypes]
    \cup [op : {"explain"}, search_type : {"hybrid"}]
    \cup [op : {"similar"}, search_type : {"vector"}]
    \cup [op : {"health"}, search_type : {None}]

NoTask == [op |-> "none", search_type |-> None, pc |-> 0]

\* the number of provider calls of task t's handler
LastCall(t) == Len(ProviderCalls(tasks[t].op, tasks[t].search_type))

\* task t's request was received and its handler has not started
Scheduled(t) == tasks[t].op # "none" /\ tasks[t].pc = 0

\* task t's handler is inside a provider call, waiting for the network
Waiting(t) == tasks[t].pc \in 1..LastCall(t)

\* task t's handler has returned
Returned(t) == tasks[t].op # "none" /\ tasks[t].pc = LastCall(t) + 1

\* health_check() goes on to its next probe when one fails; every other
\* handler leaves its provider calls at the first failure
StopsAtFailure(op) == op # "health"

LoopInit ==
    /\ physics_text = <<"a">>
    /\ collection = BatchObjects(Chunks(<<"a">>))
    /\ initialized = TRUE
    /\ request = NoRequest
    /\ retrieval = NoRetrieval
    /\ result = NoResult
    /\ status = 0
    /\ body = NoBody
    /\ calls = <<>>
    /\ lazy_runs = 0
    /\ tasks = [t \in Tasks |-> NoTask]
    /\ running = 0

LoopFrame ==
    UNCHANGED <<collection, initialized, physics_text, request, retrieval, result,
                status, body, calls, lazy_runs>>

\* a request arrives and its handler coroutine is scheduled
Receive(t) ==
    /\ tasks[t] = NoTask
    /\ \E r \in TaskRequests :
         tasks' = [tasks EXCEPT ![t] = [op |-> r.op, search_type |-> r.search_type,
                                        pc |-> 0]]
    /\ running' = running
    /\ LoopFrame

\* the event loop, when no coroutine holds its thread, runs a scheduled
\* handler up to its first provider call
Start(t) ==
    /\ running = 0
    /\ Scheduled(t)
    /\ tasks' = [tasks EXCEPT ![t].pc = 1]
    /\ running' = t
    /\ LoopFrame

\* the blocking provider call of the running handler returns or raises; the
\* handler goes on to its next call on the same thread, or returns and
\* gives the thread back to the loop
CallReturns(t) ==
    /\ running = t
    /\ Waiting(t)
    /\ \E ok \in BOOLEAN :
         IF (ok \/ ~StopsAtFailure(tasks[t].op)) /\ tasks[t].pc < LastCall(t)
         THEN /\ tasks' = [tasks EXCEPT ![t].pc = @ + 1]
              /\ running' = t
         ELSE /\ tasks' = [tasks EXCEPT ![t].pc = LastCall(t) + 1]
              /\ running' = 0
    /\ LoopFrame

\* the response of a returned handler is sent
Sent(t) ==
    /\ Returned(t)
    /\ tasks' = [tasks EXCEPT ![t] = NoTask]
    /\ running' = running
    /\ LoopFrame

LoopNext == \E t \in Tasks : Receive(t) \/ Start(t) \/ CallReturns(t) \/ Sent(t)

LoopSpec == LoopInit /\ [][LoopNext]_vars

(* ------------------------------- claims -------------------------------- *)

\* the request being served is a chat request / the answer chat() returned
ChatServed == request.op = "chat"

Answer == result.value

\* a call of the served request, made by search() after its lazy
\* initialization or by the generation gateway, raised
ProcessingFailed ==
    Failed(calls, "embed") \/ Failed(calls, "query") \/ Failed(calls, "generate")

\* C1: every answer returned by chat() has a confidence in [0.0, 1.0],
\* whatever the top result's raw score, the search mode and include_sources.
C1_ConfidenceInUnitInterval ==
    ChatServed => (Answer.confidence >= 0 /\ Answer.confidence <= Scale)

\* C2: when retrieval returns an empty result sequence, the chat request ends
\* with HTTP success and a body with confidence 0.0, no sources and the
\* fixed 'no relevant information found' text.
C2_EmptyRetrievalIsHttpSuccess ==
    (ChatServed /\ ~retrieval.raised /\ retrieval.value = <<>>) =>
        /\ status = HTTP_200_OK
        /\ body.confidence = 0
        /\ body.sources = <<>>
        /\ body.response = NoInfoText

\* C3: when the generation provider fails in a chat request whose retrieval
\* returned at least one result, chat() returns (does not raise) an answer
\* with the apology text and confidence exactly 0.0.
C3_GenerationOutageIsZeroConfidence ==
    (ChatServed /\ retrieval.value # <<>> /\ Failed(calls, "generate")) =>
        /\ ~result.raised
        /\ Answer.response = ApologyText
        /\ Answer.confidence = 0

\* C4: chat() never raises, and every exception of retrieval, embedding or
\* generation inside the call gives a degraded answer: the apology text,
\* confidence 0.0, no sources, the elapsed time and the error detail.
C4_EveryFailureIsDegradedAnswer ==
    ChatServed =>
        /\ ~result.raised
        /\ ProcessingFailed =>
              /\ Answer.response = ApologyText
              /\ Answer.confidence = 0
              /\ Answer.sources = <<>>
              /\ "total_time" \in DOMAIN Answer
              /\ "error" \in DOMAIN Answer

\* C5: a chat request whose processing fails (retrieval, embedding or
\* generation error) is answered with status 200 and an apologetic body,
\* never with an error status.
C5_ChatFailureIsHttp200 ==
    (ChatServed /\ ProcessingFailed) =>
        /\ status = HTTP_200_OK
        /\ body.response = ApologyText

\* C6: a concept-explanation request whose retrieval fails or returns
\* nothing is answered with HTTP success and a body that satisfies the
\* concept response schema.
C6_ExplainNeverHardFails ==
    (request.op = "explain" /\ (retrieval.raised \/ retrieval.value = <<>>)) =>
        /\ ~result.raised
        /\ status = HTTP_200_OK
        /\ ConceptResponseRequired \subseteq DOMAIN body

\* C7: search() propagates every failure of the query embedding or of the
\* index query as an exception and returns no results then; the search
\* endpoint answers it with the server-error status.
C7_SearchPropagatesFailures ==
    /\ (retrieval.called /\ (Failed(calls, "embed") \/ Failed(calls, "query"))) =>
          (retrieval.raised /\ retrieval.value = <<>>)
    /\ (request.op = "search" /\ (Failed(calls, "embed") \/ Failed(calls, "query"))) =>
          (result.raised /\ result.value = <<>>
           /\ status = HTTP_500_INTERNAL_SERVER_ERROR)

\* a search request failed at the index query and was answered with 500
C7_Witness ==
    /\ request.op = "search"
    /\ Failed(calls, "query")
    /\ result.raised
    /\ status = HTTP_500_INTERNAL_SERVER_ERROR

\* C8: the sequence a search in any mode returns has length n <= top_k and
\* rank fields exactly 1, 2, ..., n in sequence order.
C8_RanksAreContiguous ==
    (retrieval.called /\ ~retrieval.raised) =>
        /\ Len(retrieval.value) <= retrieval.limit
        /\ \A i \in 1..Len(retrieval.value) : retrieval.value[i].rank = i

\* a search returned two results whose raw scores are not in rank order
C8_Witness ==
    /\ retrieval.called
    /\ ~retrieval.raised
    /\ Len(retrieval.value) = 2
    /\ retrieval.value[1].score < retrieval.value[2].score

\* C9: every result search() returns carries the search mode that was
\* requested.
C9_ResultsCarryRequestedMode ==
    /\ (retrieval.called /\ ~retrieval.raised) =>
          \A i \in 1..Len(retrieval.value) :
              retrieval.value[i].search_type = retrieval.search_type
    /\ (request.op = "search" /\ ~result.raised) =>
          \A i \in 1..Len(result.value) :
              result.value[i].search_type = request.search_type

\* a keyword search request and a vector search request returned results
C9_Witness ==
    /\ request.op = "search"
    /\ request.search_type \in {"keyword", "vector"}
    /\ ~result.raised
    /\ result.value # <<>>

\* C10: initialize_collection without force_reset on an index that holds
\* documents is a no-op: the collection is unchanged and nothing is
\* inserted, also when the document count query fails.
C10_IngestionIsIdempotent ==
    [][(Len(collection) > 0 /\ Called(calls', "stats") /\ ~Called(calls', "reset"))
          => (collection' = collection /\ ~Called(calls', "insert"))]_vars

\* C11: over any sequence of requests on one service instance, the ingestion
\* triggered by lazy initialization runs at most once, also when an
\* ingestion attempt fails.
C11_LazyIngestionAtMostOnce == lazy_runs <= 1

\* the served request is an /initialize request with force_reset
ForcedReset == request.op = "initialize" /\ request.force_reset

\* C12: whenever ingestion with force_reset reports success, the index holds
\* exactly one document per non-empty segment of the source text, with
\* doc_ids 0..n-1, and no document from before the reset.
C12_ForcedResetLeavesOnlyNewDocuments ==
    (ForcedReset /\ ~result.raised /\ result.value = TRUE) =>
        collection = BatchObjects(Chunks(physics_text))

\* a step of initialize_collection failed: the reset, reading the source
\* text, the batch embedding or the insertion
IngestionStepFailed ==
    \/ Failed(calls, "reset")
    \/ Failed(calls, "read")
    \/ Failed(calls, "embed_batch")
    \/ Failed(calls, "insert")

\* C13: initialize_collection never raises, and every failure during reset,
\* reading the source text, embedding or insertion is reported as the return
\* value False.
C13_IngestionFailureIsFalse ==
    request.op = "initialize" =>
        /\ ~result.raised
        /\ IngestionStepFailed => result.value = FALSE

\* C16: the confidence of a chat answer is max(0.0, 1.0 - abs(s)) for a
\* negative top raw score s and min(s, 1.0) otherwise.
C16_ConfidenceFormula ==
    (ChatServed /\ ~retrieval.raised /\ retrieval.value # <<>>) =>
        LET s == retrieval.value[1].score
        IN  Answer.confidence =
                IF s < 0 THEN Max(0, Scale - Abs(s)) ELSE Min(s, Scale)

\* the position of the first call of that name in the log, 0 when absent
RECURSIVE IndexOf(_, _)
IndexOf(log, name) ==
    IF log = <<>> THEN 0
    ELSE IF log[Len(log)].name = name /\ ~Called(SubSeq(log, 1, Len(log) - 1), name)
         THEN Len(log)
         ELSE IndexOf(SubSeq(log, 1, Len(log) - 1), name)

\* C17: in a chat or explain request the generation provider is invoked
\* only after retrieval returned a non-empty result sequence, and never
\* when the result sequence is empty.
C17_GenerationOnlyAfterRetrieval ==
    request.op \in {"chat", "explain"} =>
        /\ Called(calls, "generate") =>
              /\ ~retrieval.raised
              /\ retrieval.value # <<>>
              /\ IndexOf(calls, "query") > 0
              /\ IndexOf(calls, "query") < IndexOf(calls, "generate")
        /\ (retrieval.raised \/ retrieval.value = <<>>) => ~Called(calls, "generate")

\* a chat request and an explain request called the generation provider
\* after a non-empty retrieval
C17_Witness ==
    /\ request.op \in {"chat", "explain"}
    /\ retrieval.value # <<>>
    /\ Called(calls, "generate")

\* C19: the health check reports 'healthy' only when the embedding provider,
\* the index and the generation provider are all reachable.
C19_HealthyOnlyWhenAllReachable ==
    (request.op = "health" /\ result.value.status = "healthy") =>
        /\ ~Failed(calls, "embed")
        /\ ~Failed(calls, "stats")
        /\ ~Failed(calls, "generate")

\* the sources of the answer generate_with_sources returned
SourcesServed == request.op = "generate_with_sources"

\* C14: each source preview is the chunk content unchanged when the content
\* has at most 200 characters, and otherwise its first 200 characters
\* followed by a 3-character ellipsis (length 203).
C14_PreviewTruncation ==
    SourcesServed =>
        \A i \in 1..Len(Answer.sources) :
            LET content == retrieval.value[i].content
                preview == Answer.sources[i].content_preview
            IN  IF Len(content) <= 200
                THEN preview = content
                ELSE /\ Len(preview) = 203
                     /\ SubSeq(preview, 1, 200) = SubSeq(content, 1, 200)
                     /\ SubSeq(preview, 201, 203) = <<".", ".", ".">>

\* an answer whose sources hold a chunk of exactly 200 characters, unchanged,
\* and a truncated longer one
C14_Witness ==
    /\ SourcesServed
    /\ \E i \in 1..Len(Answer.sources) :
          Len(retrieval.value[i].content) = 200
          /\ Len(Answer.sources[i].content_preview) = 200
    /\ \E i \in 1..Len(Answer.sources) :
          Len(retrieval.value[i].content) > 200
          /\ Len(Answer.sources[i].content_preview) = 203

\* C15: with n results there are exactly min(3, n) sources, in the order of
\* the results, each with the doc_id, rank and score of its result.
C15_SourcesArePrefix ==
    SourcesServed =>
        /\ Len(Answer.sources) = Min(3, Len(retrieval.value))
        /\ \A i \in 1..Len(Answer.sources) :
              /\ Answer.sources[i].doc_id = retrieval.value[i].doc_id
              /\ Answer.sources[i].rank = retrieval.value[i].rank
              /\ Answer.sources[i].score = retrieval.value[i].score

\* an answer built from four results has three sources
C15_Witness ==
    /\ SourcesServed
    /\ Len(retrieval.value) = 4
    /\ Len(Answer.sources) = 3

\* C20: no generation method of the gateway raises when the provider call
\* fails: each returns its fixed apology string.
C20_GatewayFailsSoft ==
    Failed(calls, "generate") =>
        /\ ~result.raised
        /\ request.op = "generate_response" => result.value = ApologyText
        /\ request.op = "generate_simple_response" => result.value = SimpleFailedText
        /\ request.op = "generate_explanation" =>
              \E concept \in Queries : result.value = <<"could not explain", concept>>
        /\ request.op = "generate_multi_context_response" =>
              result.value = MultiContextFailedText

\* the single-context method returned its apology after a failed provider call
C20_Witness ==
    /\ request.op = "generate_response"
    /\ Failed(calls, "generate")
    /\ result.value = ApologyText

\* the environment the service was constructed in
Constructed == request.op = "construct"

\* the provider API key is not configured
ApiKeyMissing == request.env.GOOGLE_API_KEY \in {Unset, ""}

\* the index URL is not configured or names no cluster
IndexUrlMissingOrInvalid ==
    request.env.WEAVIATE_URL \in {Unset, "", "not a url"}

\* the index credential is required (cloud index) and not configured
IndexCredentialMissing ==
    /\ request.env.USE_LOCAL_WEAVIATE # "true"
    /\ request.env.WEAVIATE_API_KEY \in {Unset, ""}

\* C18: constructing the service fails with an error before any provider or
\* index connection is made whenever the provider API key is missing or the
\* index URL or required index credential is missing or invalid.
C18_MisconfigurationFailsBeforeConnecting ==
    (Constructed /\ (ApiKeyMissing \/ IndexUrlMissingOrInvalid \/ IndexCredentialMissing))
        => (result.raised /\ calls = <<>>)

\* C21: while one request is waiting on an embedding, index or generation
\* call, another request in flight on the same process can make progress.
C21_RequestsInterleaveAtProviderCalls ==
    \A t, u \in Tasks :
        (Waiting(t) /\ Scheduled(u)) => ENABLED Start(u)

\* the contexts every generation call of the served request was given
GenerationContexts ==
    { calls[i].contexts : i \in { j \in 1..Len(calls) : calls[j].name = "generate" } }

\* C22: when a chat request has include_sources false and retrieval is
\* non-empty, generation receives only the content of the first result as
\* context and the answer's sources list is empty.
C22_NoSourcesUsesTopResultOnly ==
    (ChatServed /\ ~request.include_sources /\ ~retrieval.raised
                /\ retrieval.value # <<>>) =>
        /\ GenerationContexts = { <<retrieval.value[1].content>> }
        /\ Answer.sources = <<>>
        /\ status = HTTP_200_OK => body.sources = <<>>

\* a chat answer without sources made from two results
C22_Witness ==
    /\ ChatServed
    /\ ~request.include_sources
    /\ Len(retrieval.value) = 2
    /\ retrieval.value[1].content # retrieval.value[2].content
    /\ status = HTTP_200_OK
    /\ body.sources = <<>>

\* C23: a concept explanation with n >= 1 hybrid search results passes
\* exactly the first min(2, n) result contents, in rank order, to the
\* multi-context generation and returns exactly those results as sources.
C23_ExplainUsesTopTwo ==
    (request.op = "explain_concept" /\ Len(retrieval.value) >= 1) =>
        LET k == Min(2, Len(retrieval.value))
        IN  /\ GenerationContexts = { [i \in 1..k |-> retrieval.value[i].content] }
            /\ Answer.sources = SubSeq(retrieval.value, 1, k)

\* an explanation made from four results has two sources
C23_Witness ==
    /\ request.op = "explain_concept"
    /\ Len(retrieval.value) = 4
    /\ Len(Answer.sources) = 2
    /\ \E c \in GenerationContexts : Len(c) = 2

\* the served request made an initialize_collection() call, whose first
\* provider call is the document count
IngestionAttempted == Called(calls, "stats")

\* C24: whenever search() issues its index query while the collection holds
\* no documents, an ingestion attempt was triggered earlier in that same
\* search() call, also after a force-reset ingestion that failed part-way.
C24_EmptyCollectionQueryFollowsIngestion ==
    (retrieval.called /\ Called(calls, "query") /\ collection = <<>>) =>
        IngestionAttempted

\* the served request's initialize_collection() call found documents in the
\* collection and was not asked to reset it
ObservedDocuments ==
    /\ IngestionAttempted
    /\ ~Called(calls, "reset")
    /\ ~Called(calls, "read")
    /\ Len(collection) > 0

\* the served request's initialize_collection() call inserted its chunks
InsertionCompleted == Called(calls, "insert") /\ ~Failed(calls, "insert")

\* C25: the initialized flag starts false, becomes true only in an
\* initialize_collection call that observed a non-empty collection without
\* force_reset or completed an insertion, and once true is never set back to
\* false, also not by a later failed force-reset.
C25_FlagSetOnceByIngestion ==
    /\ ~initialized
    /\ [][/\ initialized => initialized'
          /\ (~initialized /\ initialized') =>
                (ObservedDocuments' \/ InsertionCompleted')]_vars

\* the flag is still true after a force-reset ingestion that returned False
C25_Witness ==
    /\ request.op = "initialize"
    /\ request.force_reset
    /\ result.value = FALSE
    /\ initialized

\* C26: once the initialized flag is true, search, chat, explain_concept,
\* get_similar_content, get_service_stats and health_check leave the
\* collection's documents and the flag unchanged, whether they succeed or
\* fail.
C26_ReadOperationsKeepCollection ==
    [][(initialized
        /\ request'.op \in {"search", "chat", "explain", "similar", "stats", "health"})
          => (collection' = collection /\ initialized' = initialized)]_vars

\* a similarity request on an initialized service failed in its search
C26_Witness ==
    /\ request.op = "similar"
    /\ initialized
    /\ ~IngestionAttempted
    /\ retrieval.raised

\* the served request called search() with the initialized flag true
SearchedInitialized == retrieval.called /\ ~IngestionAttempted

\* the calls of the served request to the embedding provider
EmbedCalls == { i \in 1..Len(calls) : calls[i].name = "embed" }

\* C27: with the initialized flag true, a keyword search never calls the
\* embedding provider and so succeeds while that provider is down; vector and
\* hybrid searches call it exactly once, before the index query, and fail
\* without querying the index when that call fails.
C27_OnlyVectorModesEmbed ==
    SearchedInitialized =>
        /\ retrieval.search_type = "keyword" =>
              /\ EmbedCalls = {}
              /\ retrieval.raised <=> Failed(calls, "query")
        /\ retrieval.search_type \in {"vector", "hybrid"} =>
              /\ EmbedCalls = {1}
              /\ Failed(calls, "embed") =>
                    (retrieval.raised /\ ~Called(calls, "query"))

\* a keyword search on an initialized service returned results
C27_Witness ==
    /\ request.op = "search"
    /\ SearchedInitialized
    /\ retrieval.search_type = "keyword"
    /\ ~retrieval.raised
    /\ retrieval.value # <<>>

\* C28: get_similar_content never raises: on any embedding or index failure
\* it returns an empty list and the similarity endpoint answers with success
\* and zero results; on success it returns one item per vector search
\* result, in the same order, with the same doc_id and with similarity_score
\* equal to the result's raw score.
C28_SimilarContentMirrorsSearch ==
    request.op = "similar" =>
        /\ ~result.raised
        /\ retrieval.search_type = "vector"
        /\ retrieval.raised =>
              /\ result.value = <<>>
              /\ status = HTTP_200_OK
              /\ body.total_results = 0
        /\ ~retrieval.raised =>
              /\ Len(result.value) = Len(retrieval.value)
              /\ \A i \in 1..Len(result.value) :
                    /\ result.value[i].doc_id = retrieval.value[i].doc_id
                    /\ result.value[i].similarity_score = retrieval.value[i].score

\* a similarity request returned two items whose raw scores are outside
\* [0, 1.0]
C28_Witness ==
    /\ request.op = "similar"
    /\ Len(result.value) = 2
    /\ result.value[1].similarity_score > Scale
    /\ result.value[2].similarity_score < 0

\* C29: the initialize endpoint never answers with an error status: when the
\* ingestion returns False or raises, the response is a success-status body
\* with success=false, and success=true is returned only when
\* initialize_collection returned True.
C29_InitializeAlwaysAnswers200 ==
    request.op = "initialize" =>
        /\ status = HTTP_200_OK
        /\ InitializeResponseRequired \subseteq DOMAIN body
        /\ (result.raised \/ result.value = FALSE) => body.success = FALSE
        /\ body.success = TRUE => (~result.raised /\ result.value = TRUE)

\* a failed ingestion was answered with status 200 and success=false
C29_Witness ==
    /\ request.op = "initialize"
    /\ IngestionStepFailed
    /\ result.value = FALSE
    /\ status = HTTP_200_OK
    /\ body.success = FALSE

\* the lazily triggered ingestion of the served request's search() call
\* returned False
LazyIngestionFailed ==
    /\ retrieval.called
    /\ IngestionAttempted
    /\ (Failed(calls, "read") \/ Failed(calls, "embed_batch") \/ Failed(calls, "insert"))

\* C30: when the lazily triggered ingestion inside search() fails, search()
\* does not report that failure: it goes on to the requested query and
\* returns what the index returns, and the flag stays false so that the
\* next search() attempts the ingestion again.
C30_LazyFailureIsSilent ==
    /\ [](LazyIngestionFailed =>
            /\ ~initialized
            /\ Called(calls, "query") \/ Failed(calls, "embed")
            /\ retrieval.raised <=> (Failed(calls, "embed") \/ Failed(calls, "query")))
    /\ [][(~initialized /\ retrieval'.called) => IngestionAttempted']_vars

\* a second search() in a row ran the ingestion again, which failed, and
\* still returned the index's results
C30_Witness ==
    /\ request.op = "search"
    /\ LazyIngestionFailed
    /\ lazy_runs = 2
    /\ ~retrieval.raised
    /\ retrieval.value # <<>>

====
